---------------------------- MODULE Spec2Model ----------------------------
(***************************************************************************)
(* Red-flag correlation engine of the invoice analyser:                    *)
(*   src/src/red_flags.py  group_similar_vendors, find_similar_format_groups, *)
(*                         detect_red_flags                                *)
(*   src/src/analyzer.py   are_layouts_similar                             *)
(* Python values are modelled as tagged records [t, v]; a dict is a        *)
(* function whose DOMAIN is the set of keys that are present.              *)
(***************************************************************************)
EXTENDS Integers, Sequences, FiniteSets, TLC

VARIABLES pc, invoices, batch, vendor_names, groups, vendor_to_canonical,
          contact_map, vendor_map, similar_format_groups, doc_to_format_group,
          flagged, idx, layout_args, layout_ret,
          uploaded_files, tasks, files, results, all_invoice_data, reference

vars == <<pc, invoices, batch, vendor_names, groups, vendor_to_canonical,
          contact_map, vendor_map, similar_format_groups, doc_to_format_group,
          flagged, idx, layout_args, layout_ret,
          uploaded_files, tasks, files, results, all_invoice_data, reference>>

\* The state of the application around detect_red_flags (app.py): the uploads,
\* the extraction tasks, the files on disk, the collected results, the batch
\* prepared for the correlation engine, and the records returned for the same
\* documents by an earlier run that collected them in another order.
app_vars == <<uploaded_files, tasks, files, results, all_invoice_data, reference>>

\* No batch run of the application is in progress.
NoApp ==
    /\ uploaded_files = <<>> /\ tasks = <<>> /\ files = <<>>
    /\ results = <<>> /\ all_invoice_data = <<>> /\ reference = <<>>

(***************************************************************************)
(* Bounds of the model.                                                    *)
(***************************************************************************)
MaxNames == 5

MaxInvoices == 3

MaxGroupBatch == 3

(***************************************************************************)
(* Python values.                                                          *)
(***************************************************************************)
PyNone == [t |-> "none", v |-> ""]

PyStr(s) == [t |-> "str", v |-> s]

PyList(l) == [t |-> "list", v |-> l]

PyDict(d) == [t |-> "dict", v |-> d]

PyInt(n) == [t |-> "int", v |-> n]

\* x == y on Python values (the tag is compared first: payloads of different
\* Python types are never equal).
PyEq(x, y) == x.t = y.t /\ x.v = y.v

\* bool(x): None, "", [] and {} are falsy.
Truthy(x) ==
    CASE x.t = "none" -> FALSE
      [] x.t = "str"  -> x.v # ""
      [] x.t = "list" -> x.v # <<>>
      [] x.t = "dict" -> DOMAIN x.v # {}
      [] OTHER        -> x.v # 0

\* d.get(k, default)
Get(d, k, default) == IF k \in DOMAIN d THEN d[k] ELSE default

\* x or y
PyOr(x, y) == IF Truthy(x) THEN x ELSE y

(***************************************************************************)
(* Character-level strings.  A string literal of the model stands for the  *)
(* sequence of its characters; Chars is that correspondence for the vendor *)
(* names the model draws from.  The alphabet is the lower-case letters     *)
(* used plus the space, in code point order.                               *)
(***************************************************************************)
Alphabet == <<" ", "a", "b", "c", "e", "l", "m", "n", "o", "t", "z">>

ord(c) == CHOOSE i \in 1..Len(Alphabet) : Alphabet[i] = c

VendorStrings == {"", "acme", "bolt", "acme bolt", "zen", "bolt zen", " zen"}

Chars(s) ==
    CASE s = ""          -> <<>>
      [] s = "acme"      -> <<"a","c","m","e">>
      [] s = "bolt"      -> <<"b","o","l","t">>
      [] s = "acme bolt" -> <<"a","c","m","e"," ","b","o","l","t">>
      [] s = "zen"       -> <<"z","e","n">>
      [] s = "bolt zen"  -> <<"b","o","l","t"," ","z","e","n">>
      [] s = " zen"      -> <<" ","z","e","n">>

StrOf(cs) == CHOOSE s \in VendorStrings : Chars(s) = cs

\* a < b on strings: code point order, a proper prefix first.
str_lt(a, b) ==
    LET n == IF Len(a) < Len(b) THEN Len(a) ELSE Len(b)
        D == {i \in 1..n : a[i] # b[i]}
    IN  IF D = {} THEN Len(a) < Len(b)
        ELSE LET d == CHOOSE i \in D : \A j \in D : i <= j
             IN  ord(a[d]) < ord(b[d])

\* s.strip() on a character sequence
strip_chars(cs) ==
    LET N == {i \in 1..Len(cs) : cs[i] # " "}
    IN  IF N = {} THEN <<>>
        ELSE LET lo == CHOOSE i \in N : \A j \in N : i <= j
                 hi == CHOOSE i \in N : \A j \in N : j <= i
             IN  SubSeq(cs, lo, hi)

\* s.strip() on a vendor string
strip(s) == StrOf(strip_chars(Chars(s)))

\* s.split(): the maximal runs of non-space characters, in order
RECURSIVE split(_)
split(cs) ==
    LET s == strip_chars(cs)
        Sp == {i \in 1..Len(s) : s[i] = " "}
    IN  IF s = <<>> THEN <<>>
        ELSE IF Sp = {} THEN <<s>>
        ELSE LET k == CHOOSE i \in Sp : \A j \in Sp : i <= j
             IN  <<SubSeq(s, 1, k - 1)>> \o split(SubSeq(s, k + 1, Len(s)))

\* sorted(tokens) for a set of tokens
RECURSIVE sorted(_)
sorted(S) ==
    IF S = {} THEN <<>>
    ELSE LET m == CHOOSE x \in S : \A y \in S : x = y \/ str_lt(x, y)
         IN  <<m>> \o sorted(S \ {m})

\* " ".join(tokens)
RECURSIVE join(_)
join(ts) ==
    IF ts = <<>> THEN <<>>
    ELSE IF Len(ts) = 1 THEN ts[1]
    ELSE ts[1] \o <<" ">> \o join(Tail(ts))

(***************************************************************************)
(* difflib.SequenceMatcher(None, a, b): the number of matched characters.  *)
(* find_longest_match takes the longest common block, the one starting     *)
(* earliest in a and then earliest in b, and the matcher recurses on the   *)
(* pieces to its left and to its right.                                    *)
(***************************************************************************)
RECURSIVE common_prefix(_, _)
common_prefix(a, b) ==
    IF a = <<>> \/ b = <<>> \/ a[1] # b[1] THEN 0
    ELSE 1 + common_prefix(Tail(a), Tail(b))

block_len(a, b, i, j) == common_prefix(SubSeq(a, i, Len(a)), SubSeq(b, j, Len(b)))

\* The longest common block of a and b as <<i, j, k>>: a[i..i+k-1] = b[j..j+k-1],
\* k largest, then i smallest, then j smallest.
longest_match(a, b) ==
    LET P == (1..Len(a)) \X (1..Len(b))
        lens == {<<p, block_len(a, b, p[1], p[2])>> : p \in P}
        top == CHOOSE x \in lens : \A y \in lens : y[2] <= x[2]
        cands == {x[1] : x \in {y \in lens : y[2] = top[2]}}
        first == CHOOSE p \in cands : \A q \in cands :
                    p[1] < q[1] \/ (p[1] = q[1] /\ p[2] <= q[2])
    IN  <<first[1], first[2], top[2]>>

\* The bound variables hold the evaluated strings and the evaluated block.
RECURSIVE matching_chars(_, _)
matching_chars(s1, s2) ==
    IF s1 = <<>> \/ s2 = <<>> THEN 0
    ELSE CHOOSE n \in
           {IF m[3] = 0 THEN 0
            ELSE m[3] + matching_chars(SubSeq(s1, 1, m[1] - 1), SubSeq(s2, 1, m[2] - 1))
                      + matching_chars(SubSeq(s1, m[1] + m[3], Len(s1)),
                                       SubSeq(s2, m[2] + m[3], Len(s2)))
              : m \in {longest_match(s1, s2)}} : TRUE

\* int(round(100 * n / d)) with Python's round-half-to-even
intr100(n, d) ==
    LET q == (100 * n) \div d
        r == (100 * n) % d
    IN  IF 2 * r > d THEN q + 1
        ELSE IF 2 * r < d THEN q
        ELSE IF q % 2 = 0 THEN q ELSE q + 1

\* fuzz.ratio: equal strings score 100, an empty string scores 0
ratio(s1, s2) ==
    IF s1 = s2 THEN 100
    ELSE IF s1 = <<>> \/ s2 = <<>> THEN 0
    ELSE intr100(2 * matching_chars(s1, s2), Len(s1) + Len(s2))

Max3(x, y, z) ==
    LET m == IF x >= y THEN x ELSE y
    IN  IF m >= z THEN m ELSE z

\* utils.full_process: non-alphanumerics to spaces, lower case, strip.  The
\* alphabet holds only lower-case letters and the space, so the first two
\* steps leave every character as it is.
full_process(cs) == strip_chars(cs)

\* fuzz.token_set_ratio on character sequences
token_set(c1, c2) ==
    LET p1 == full_process(c1)
        p2 == full_process(c2)
    IN  IF p1 = <<>> \/ p2 = <<>> THEN 0
        ELSE
        LET tokens1 == {split(p1)[i] : i \in 1..Len(split(p1))}
            tokens2 == {split(p2)[i] : i \in 1..Len(split(p2))}
            sorted_sect == join(sorted(tokens1 \cap tokens2))
            sorted_1to2 == join(sorted(tokens1 \ tokens2))
            sorted_2to1 == join(sorted(tokens2 \ tokens1))
            combined_1to2 == strip_chars(sorted_sect \o <<" ">> \o sorted_1to2)
            combined_2to1 == strip_chars(sorted_sect \o <<" ">> \o sorted_2to1)
            sect == strip_chars(sorted_sect)
        IN  Max3(ratio(sect, combined_1to2),
                 ratio(sect, combined_2to1),
                 ratio(combined_1to2, combined_2to1))

\* The scores of all pairs of vendor strings, computed once.
TokenSetTable == [p \in VendorStrings \X VendorStrings |-> token_set(Chars(p[1]), Chars(p[2]))]

token_set_ratio(s1, s2) == TokenSetTable[<<s1, s2>>]

VendorThreshold == 90


(***************************************************************************)
(* group_similar_vendors (red_flags.py 7-28).                              *)
(***************************************************************************)
\* Lines 15-16 with the scan of the groups cut short after the first group.
first_group_only(gs, v, threshold) ==
    IF gs # <<>> /\ \E m \in gs[1] : token_set_ratio(v, m) >= threshold THEN 1 ELSE 0

\* Lines 15-16: the index of the first group holding a member whose score
\* with v reaches the threshold, 0 when there is none.
first_matching_group(gs, v, threshold) ==
    CHOOSE r \in {IF M = {} THEN 0 ELSE CHOOSE g \in M : \A h \in M : g <= h :
                    M \in {{g \in 1..Len(gs) :
                              \E m \in gs[g] : token_set_ratio(v, m) >= threshold}}} : TRUE

\* Lines 14-21: one pass of the loop body for the name v.
add_vendor(gs, v, threshold) ==
    CHOOSE r \in {IF g # 0 THEN [gs EXCEPT ![g] = @ \cup {v}] ELSE Append(gs, {v}) :
                    g \in {first_matching_group(gs, v, threshold)}} : TRUE

\* Lines 12-21: the groups after all names, in order.
RECURSIVE greedy_groups(_, _, _)
greedy_groups(gs, names, threshold) ==
    IF names = <<>> THEN gs
    ELSE CHOOSE r \in {greedy_groups(g, Tail(names), threshold) :
                          g \in {add_vendor(gs, Head(names), threshold)}} : TRUE

\* Line 25: sorted(group)[0]
canonical_of(group) ==
    CHOOSE m \in group : \A x \in group : x = m \/ str_lt(Chars(m), Chars(x))

\* Lines 23-27: the groups are written to the dict in order, so a name that
\* sits in several groups keeps the canonical name of the last of them.
canonical_map(gs) ==
    LET members == UNION {gs[g] : g \in 1..Len(gs)}
        last(v) == CHOOSE g \in 1..Len(gs) :
                      v \in gs[g] /\ \A h \in 1..Len(gs) : v \in gs[h] => h <= g
    IN  [v \in members |-> canonical_of(gs[last(v)])]

group_similar_vendors(names) ==
    CHOOSE r \in {canonical_map(gs) : gs \in {greedy_groups(<<>>, names, VendorThreshold)}} : TRUE

(***************************************************************************)
(* Specification of group_similar_vendors alone: any sequence of at most   *)
(* MaxNames names, then the call.                                          *)
(***************************************************************************)
NameChoices == {"", "acme", "bolt", "acme bolt", "zen", "bolt zen"}

SeqsUpTo(S, n) == UNION {[1..k -> S] : k \in 0..n}

InitVendors ==
    /\ pc = "gv_call"
    /\ vendor_names \in SeqsUpTo(NameChoices, MaxNames)
    /\ invoices = <<>> /\ batch = <<>> /\ groups = <<>>
    /\ vendor_to_canonical = <<>> /\ contact_map = <<>> /\ vendor_map = <<>>
    /\ similar_format_groups = <<>> /\ doc_to_format_group = <<>>
    /\ NoApp
    /\ flagged = <<>> /\ idx = 0 /\ layout_args = <<>> /\ layout_ret = <<>>

CallGroupSimilarVendors ==
    /\ pc = "gv_call"
    /\ groups' = greedy_groups(<<>>, vendor_names, VendorThreshold)
    /\ vendor_to_canonical' = group_similar_vendors(vendor_names)
    /\ pc' = "gv_done"
    /\ UNCHANGED app_vars
    /\ UNCHANGED <<invoices, batch, vendor_names, contact_map, vendor_map,
                   similar_format_groups, doc_to_format_group, flagged, idx,
                   layout_args, layout_ret>>

NextVendors == CallGroupSimilarVendors

SpecVendors == InitVendors /\ [][NextVendors]_vars

\* C10: after group_similar_vendors, every member of every group of the greedy
\* pass maps to the lexicographically smallest member of that group, and so
\* every canonical name maps to itself.
C10_MembersMapToSmallest ==
    pc = "gv_done" =>
        /\ \A g \in 1..Len(groups) : \A v \in groups[g] :
               vendor_to_canonical[v] = canonical_of(groups[g])
        /\ \A v \in DOMAIN vendor_to_canonical :
               vendor_to_canonical[vendor_to_canonical[v]] = vendor_to_canonical[v]


(***************************************************************************)
(* are_layouts_similar (analyzer.py 35-91).                                *)
(*                                                                         *)
(* A similarity score is kept exactly as the fraction sq_num / sq_den of   *)
(* its square (scores are never negative), so that the comparisons with    *)
(* the thresholds need no square root.                                     *)
(***************************************************************************)
Score(n, d) == [sq_num |-> n, sq_den |-> d]

ScoreZero == Score(0, 1)

\* score > a / b and score < a / b, for a, b > 0
score_gt(s, a, b) == s.sq_num * b * b > a * a * s.sq_den

score_lt(s, a, b) == s.sq_num * b * b < a * a * s.sq_den

score_is_one(s) == s.sq_num = s.sq_den

\* The column headers the model draws from, and what the two tokenisers of
\* are_layouts_similar make of each.  TfidfVectorizer(lowercase=True,
\* stop_words='english') keeps the lower-cased runs of two or more word
\* characters that are no English stop word ("no" is one; "#" has no word
\* character); the fallback splits the lower-cased text at white space.
HeaderStrings == {"Item", "Qty", "Price", "Total", "No", "#"}

tfidf_tokens(h) ==
    CASE h = "Item"  -> <<"item">>
      [] h = "Qty"   -> <<"qty">>
      [] h = "Price" -> <<"price">>
      [] h = "Total" -> <<"total">>
      [] h = "No"    -> <<>>
      [] h = "#"     -> <<>>

lower_words(h) ==
    CASE h = "Item"  -> <<"item">>
      [] h = "Qty"   -> <<"qty">>
      [] h = "Price" -> <<"price">>
      [] h = "Total" -> <<"total">>
      [] h = "No"    -> <<"no">>
      [] h = "#"     -> <<"#">>

\* The terms the vectoriser finds in " ".join(headers).
RECURSIVE tfidf_analyze(_)
tfidf_analyze(headers) ==
    IF headers = <<>> THEN <<>>
    ELSE tfidf_tokens(Head(headers)) \o tfidf_analyze(Tail(headers))

\* " ".join(headers).lower().split()
RECURSIVE lower_split(_)
lower_split(headers) ==
    IF headers = <<>> THEN <<>>
    ELSE lower_words(Head(headers)) \o lower_split(Tail(headers))

count(t, ts) == Cardinality({i \in 1..Len(ts) : ts[i] = t})

elems(ts) == {ts[i] : i \in 1..Len(ts)}

\* The sum of f[x] over the x in S.
RECURSIVE sum_over(_, _)
sum_over(S, f) ==
    IF S = {} THEN 0
    ELSE LET x == CHOOSE y \in S : TRUE
         IN  f[x] + sum_over(S \ {x}, f)

\* Lines 71-74.  With two documents and smooth_idf, a term of both documents
\* has idf ln(3/3) + 1 = 1 and a term of one has idf ln(3/2) + 1, whose
\* square 1.97533 is taken as 160/81; rows are l2-normalised, and the cosine
\* of a row without terms is 0.  The squared cosine is
\*   (81 * dot)^2 / (n1 * n2),  n = 81 * sum tf^2 (shared) + 160 * sum tf^2 (own).
tfidf_cosine(t1, t2) ==
    LET shared == elems(t1) \cap elems(t2)
        dot == sum_over(shared, [t \in shared |-> count(t, t1) * count(t, t2)])
        sq(own) == [t \in elems(own) |-> count(t, own) * count(t, own)]
        norm(own, other) ==
            81 * sum_over(elems(own) \cap elems(other), sq(own))
          + 160 * sum_over(elems(own) \ elems(other), sq(own))
    IN  IF dot = 0 THEN ScoreZero
        ELSE Score((81 * dot) * (81 * dot), norm(t1, t2) * norm(t2, t1))

\* Lines 82-84: the share of common words among all words.
word_overlap(w1, w2) ==
    LET common == Cardinality(elems(w1) \cap elems(w2))
        total  == Cardinality(elems(w1) \cup elems(w2))
    IN  IF total = 0 THEN ScoreZero ELSE Score(common * common, total * total)

\* len(x) is defined for a list, a str and a dict and raises TypeError
\* otherwise.
HasLen(x) == x.t \in {"list", "str", "dict"}

Raised == [raised |-> TRUE, is_similar |-> FALSE, sim |-> ScoreZero]

Returned(b, s) == [raised |-> FALSE, is_similar |-> b, sim |-> s]

\* Lines 52-56: the table-size test.  Both sizes truthy: their difference is
\* taken; on two dicts (the rows/columns mapping) the subtraction raises
\* TypeError, which the outer handler (89-91) turns into (False, 0.0); on two
\* numbers a relative difference above 0.3 rejects.
table_size_rejects(table_size1, table_size2) ==
    /\ Truthy(table_size1) /\ Truthy(table_size2)
    /\ IF table_size1.t = "int" /\ table_size2.t = "int"
       THEN LET a == table_size1.v
                b == table_size2.v
                d == IF a >= b THEN a - b ELSE b - a
                m == IF a >= b THEN a ELSE b
            IN  10 * d > 3 * m
       ELSE TRUE

are_layouts_similar(headers1, headers2, scanned1, scanned2, table_size1, table_size2, handwritten1, handwritten2) ==
    \* line 39, outside the try: len(headers1), len(headers2)
    IF ~HasLen(headers1) \/ ~HasLen(headers2) THEN Raised
    \* lines 43-49
    ELSE IF ~PyEq(scanned1, scanned2) THEN Returned(FALSE, ScoreZero)
    ELSE IF ~PyEq(handwritten1, handwritten2) THEN Returned(FALSE, ScoreZero)
    \* lines 52-56
    ELSE IF table_size_rejects(table_size1, table_size2) THEN Returned(FALSE, ScoreZero)
    \* lines 59-61
    ELSE IF ~Truthy(headers1) \/ ~Truthy(headers2) THEN Returned(FALSE, ScoreZero)
    ELSE LET t1 == tfidf_analyze(headers1.v)
             t2 == tfidf_analyze(headers2.v)
         IN  IF t1 # <<>> \/ t2 # <<>>
             \* lines 71-77
             THEN LET s == tfidf_cosine(t1, t2)
                  IN  Returned(score_gt(s, 7, 10), s)
             \* lines 79-87: fit_transform raises ValueError on an empty vocabulary
             ELSE LET s == word_overlap(lower_split(headers1.v), lower_split(headers2.v))
                  IN  Returned(score_gt(s, 1, 2), s)

(***************************************************************************)
(* Specification of are_layouts_similar alone.                             *)
(***************************************************************************)
HeadersIQP == PyList(<<"Item", "Qty", "Price">>)

HeadersIQ == PyList(<<"Item", "Qty">>)

HeadersTotal == PyList(<<"Total">>)

HeadersNo == PyList(<<"No", "#">>)

Size2x3 == PyDict([rows |-> 2, columns |-> 3])

Size5x3 == PyDict([rows |-> 5, columns |-> 3])

LayoutHeaders == {HeadersIQP, HeadersIQ, HeadersTotal, HeadersNo, PyList(<<>>), PyNone}

LayoutScans == {PyStr("scanned"), PyStr(""), PyNone}

LayoutSizes == {Size2x3, Size5x3, PyNone}

LayoutHands == {PyStr("typed"), PyStr("handwritten")}

InitLayout ==
    /\ pc = "la_call"
    /\ layout_args \in [headers1 : LayoutHeaders, headers2 : LayoutHeaders,
                        scanned1 : LayoutScans, scanned2 : LayoutScans,
                        table_size1 : LayoutSizes, table_size2 : LayoutSizes,
                        handwritten1 : LayoutHands, handwritten2 : LayoutHands]
    /\ invoices = <<>> /\ batch = <<>> /\ vendor_names = <<>> /\ groups = <<>>
    /\ vendor_to_canonical = <<>> /\ contact_map = <<>> /\ vendor_map = <<>>
    /\ similar_format_groups = <<>> /\ doc_to_format_group = <<>>
    /\ NoApp
    /\ flagged = <<>> /\ idx = 0 /\ layout_ret = <<>>

CallAreLayoutsSimilar ==
    /\ pc = "la_call"
    /\ layout_ret' = are_layouts_similar(
                        layout_args.headers1, layout_args.headers2,
                        layout_args.scanned1, layout_args.scanned2,
                        layout_args.table_size1, layout_args.table_size2,
                        layout_args.handwritten1, layout_args.handwritten2)
    /\ pc' = IF layout_ret'.raised THEN "la_raised" ELSE "la_done"
    /\ UNCHANGED app_vars
    /\ UNCHANGED <<invoices, batch, vendor_names, groups, vendor_to_canonical,
                   contact_map, vendor_map, similar_format_groups,
                   doc_to_format_group, flagged, idx, layout_args>>

NextLayout == CallAreLayoutsSimilar

SpecLayout == InitLayout /\ [][NextLayout]_vars

\* The two layouts handed to are_layouts_similar are the same layout.
SameLayoutArgs ==
    /\ PyEq(layout_args.headers1, layout_args.headers2)
    /\ PyEq(layout_args.scanned1, layout_args.scanned2)
    /\ PyEq(layout_args.table_size1, layout_args.table_size2)
    /\ PyEq(layout_args.handwritten1, layout_args.handwritten2)

\* C9: the score are_layouts_similar returns for a layout compared with an
\* identical layout is 1.0, for every valid layout (headers a list, which may
\* be empty; the table size present or not).
C9_Reflexive ==
    (pc \in {"la_done", "la_raised"} /\ SameLayoutArgs /\ layout_args.headers1.t = "list") =>
        /\ pc = "la_done"
        /\ score_is_one(layout_ret.sim)


(***************************************************************************)
(* Invoice records.  An invoice is a dict: a function from the keys that   *)
(* are present to Python values.                                           *)
(***************************************************************************)
FileNames == <<"f1.pdf", "f2.pdf", "f3.pdf", "f4.pdf", "f5.pdf">>

\* d with d[k] = x (d[k] = x in Python: the key is added when absent)
SetKey(d, k, x) == [j \in DOMAIN d \cup {k} |-> IF j = k THEN x ELSE d[j]]

\* d without the key k
DelKey(d, k) == [j \in DOMAIN d \ {k} |-> d[j]]

\* d1 == d2 on dicts
DictEq(d1, d2) == DOMAIN d1 = DOMAIN d2 /\ \A k \in DOMAIN d1 : PyEq(d1[k], d2[k])

\* An extracted record with every field present (app.py 146-157 builds such).
Fields(vendor, phones, emails, headers, size, scanned, hand) ==
    [vendor_name |-> vendor, phone_numbers |-> phones, email_addresses |-> emails,
     table_headers |-> headers, table_size |-> size,
     scanned_or_typed |-> scanned, handwritten_or_typed |-> hand]

\* The batch made of the field records fs, the i-th named FileNames[i].
Batch(fs) == [i \in 1..Len(fs) |-> SetKey(fs[i], "file_name", PyStr(FileNames[i]))]

\* (inv.get("vendor_name") or "").strip()
vendor_of(inv) == strip(PyOr(Get(inv, "vendor_name", PyNone), PyStr("")).v)

\* vendor_to_canonical.get(vendor, vendor)
canonical_vendor_of(inv, v2c) == Get(v2c, vendor_of(inv), vendor_of(inv))

\* (inv.get(key) or "")
str_or_empty(inv, key) == PyOr(Get(inv, key, PyNone), PyStr(""))

(***************************************************************************)
(* find_similar_format_groups (red_flags.py 31-81).  A group lists its     *)
(* documents by their position in the batch.                               *)
(***************************************************************************)
\* Lines 62-72: the comparison of two documents, the categories of both
\* normalised with `or ""`.
compare_formats(inv1, inv2) ==
    are_layouts_similar(Get(inv1, "table_headers", PyList(<<>>)),
                        Get(inv2, "table_headers", PyList(<<>>)),
                        str_or_empty(inv1, "scanned_or_typed"),
                        str_or_empty(inv2, "scanned_or_typed"),
                        Get(inv1, "table_size", PyNone),
                        Get(inv2, "table_size", PyNone),
                        str_or_empty(inv1, "handwritten_or_typed"),
                        str_or_empty(inv2, "handwritten_or_typed"))

\* Line 61 without the test: documents of any vendor are compared.
any_vendor(canonical_vendor1, canonical_vendor2) == TRUE

\* Line 61: only documents of another canonical vendor than the seed's.
other_vendor(canonical_vendor1, canonical_vendor2) == canonical_vendor1 # canonical_vendor2

\* Line 74 with the threshold of are_layouts_similar (0.7) in place of 0.9.
joins_group_loose(sim, inv1, inv2) ==
    /\ score_gt(sim, 7, 10)
    /\ PyEq(str_or_empty(inv1, "scanned_or_typed"), str_or_empty(inv2, "scanned_or_typed"))
    /\ PyEq(str_or_empty(inv1, "handwritten_or_typed"), str_or_empty(inv2, "handwritten_or_typed"))

\* Line 74: the grouping condition.
joins_group(sim, inv1, inv2) ==
    /\ score_gt(sim, 9, 10)
    /\ PyEq(str_or_empty(inv1, "scanned_or_typed"), str_or_empty(inv2, "scanned_or_typed"))
    /\ PyEq(str_or_empty(inv1, "handwritten_or_typed"), str_or_empty(inv2, "handwritten_or_typed"))

\* Line 75 alone: the document is appended to the group but not marked as
\* processed.
append_only(st, j) == [st EXCEPT !.group = Append(@, j)]

\* Lines 75-76: the document joins the group of the seed and is marked.
mark_joined(st, j) == [st EXCEPT !.group = Append(@, j), !.processed = @ \cup {j}]

\* Lines 53-76: the inner loop from document j on, for the seed i.
\* st = [raised, group, processed].
RECURSIVE scan_candidates(_, _, _, _, _)
scan_candidates(invs, v2c, i, j, st) ==
    IF j > Len(invs) \/ st.raised THEN st
    ELSE IF j \in st.processed \/ j = i THEN scan_candidates(invs, v2c, i, j + 1, st)
    ELSE IF ~other_vendor(canonical_vendor_of(invs[i], v2c), canonical_vendor_of(invs[j], v2c))
         THEN scan_candidates(invs, v2c, i, j + 1, st)
    ELSE LET res == compare_formats(invs[i], invs[j])
         IN  IF res.raised THEN [st EXCEPT !.raised = TRUE]
             ELSE IF joins_group(res.sim, invs[i], invs[j])
                  THEN scan_candidates(invs, v2c, i, j + 1, mark_joined(st, j))
                  ELSE scan_candidates(invs, v2c, i, j + 1, st)

\* Line 78: only groups of several documents are kept.
keep_group(format_groups, current_group) ==
    IF Len(current_group) > 1 THEN Append(format_groups, current_group) ELSE format_groups

\* Lines 39-79: the outer loop from document i on.
RECURSIVE build_groups(_, _, _, _, _)
build_groups(invs, v2c, i, processed, format_groups) ==
    IF i > Len(invs) THEN [raised |-> FALSE, groups |-> format_groups]
    ELSE IF i \in processed THEN build_groups(invs, v2c, i + 1, processed, format_groups)
    ELSE LET st == scan_candidates(invs, v2c, i, 1,
                       [raised |-> FALSE, group |-> <<i>>, processed |-> processed \cup {i}])
         IN  IF st.raised THEN [raised |-> TRUE, groups |-> <<>>]
             ELSE build_groups(invs, v2c, i + 1, st.processed,
                               keep_group(format_groups, st.group))

find_similar_format_groups(invs, v2c) == build_groups(invs, v2c, 1, {}, <<>>)

(***************************************************************************)
(* Specification of find_similar_format_groups alone: any batch of at most *)
(* MaxGroupBatch documents and any canonical map over their vendor names.  *)
(***************************************************************************)
HeadersQQQIP == PyList(<<"Qty", "Qty", "Qty", "Item", "Price">>)

HeadersQQQI == PyList(<<"Qty", "Qty", "Qty", "Item">>)

HeadersQQQP == PyList(<<"Qty", "Qty", "Qty", "Price">>)

GroupVendorNames == {"acme", "zen"}

GroupFields ==
    {Fields(PyStr(v), PyList(<<>>), PyList(<<>>), h, PyNone, PyStr("scanned"), PyStr("typed")) :
        v \in GroupVendorNames, h \in {HeadersQQQIP, HeadersQQQI, HeadersQQQP}}
    \cup
    {Fields(PyStr(v), PyList(<<>>), PyList(<<>>), HeadersQQQI, PyNone, PyStr(""), PyStr("typed")) :
        v \in GroupVendorNames}

\* Every dict from some of the vendor names to vendor names.
CanonicalMaps == UNION {[D -> GroupVendorNames] : D \in SUBSET GroupVendorNames}

InitGroups ==
    /\ pc = "fg_call"
    /\ \E fs \in SeqsUpTo(GroupFields, MaxGroupBatch) : invoices = Batch(fs)
    /\ batch = invoices
    /\ vendor_to_canonical \in CanonicalMaps
    /\ vendor_names = <<>> /\ groups = <<>> /\ contact_map = <<>> /\ vendor_map = <<>>
    /\ similar_format_groups = <<>> /\ doc_to_format_group = <<>>
    /\ NoApp
    /\ flagged = <<>> /\ idx = 0 /\ layout_args = <<>> /\ layout_ret = <<>>

CallFindSimilarFormatGroups ==
    /\ pc = "fg_call"
    /\ LET r == find_similar_format_groups(invoices, vendor_to_canonical)
       IN  /\ similar_format_groups' = r.groups
           /\ pc' = IF r.raised THEN "fg_raised" ELSE "fg_done"
    /\ UNCHANGED app_vars
    /\ UNCHANGED <<invoices, batch, vendor_names, groups, vendor_to_canonical,
                   contact_map, vendor_map, doc_to_format_group, flagged, idx,
                   layout_args, layout_ret>>

NextGroups == CallFindSimilarFormatGroups

SpecGroups == InitGroups /\ [][NextGroups]_vars

\* The canonical vendor of the document at position i of the batch.
CanonicalAt(i) == canonical_vendor_of(invoices[i], vendor_to_canonical)

\* The layout score of the documents at positions i and j.
SimAt(i, j) == compare_formats(invoices[i], invoices[j]).sim

\* C4 as stated: no two members of a returned format group have the same
\* canonical vendor.
C4_NoTwoMembersSameVendor ==
    pc = "fg_done" =>
        \A g \in 1..Len(similar_format_groups) :
            \A a, b \in 1..Len(similar_format_groups[g]) :
                a # b => CanonicalAt(similar_format_groups[g][a]) # CanonicalAt(similar_format_groups[g][b])

\* C4 amended: in every returned format group, every member but the first has
\* another canonical vendor than the first member (so a group draws from at
\* least two canonical vendors).
C4_MembersDifferFromFirst ==
    pc = "fg_done" =>
        \A g \in 1..Len(similar_format_groups) :
            /\ Len(similar_format_groups[g]) >= 2
            /\ \A a \in 2..Len(similar_format_groups[g]) :
                   CanonicalAt(similar_format_groups[g][a]) # CanonicalAt(similar_format_groups[g][1])

\* Witness of C4: a returned group of three documents, two of them of the
\* same canonical vendor.
C4_Witness ==
    /\ pc = "fg_done"
    /\ \E g \in 1..Len(similar_format_groups) :
           /\ Len(similar_format_groups[g]) = 3
           /\ CanonicalAt(similar_format_groups[g][2]) = CanonicalAt(similar_format_groups[g][3])

\* C5 as stated: every two members of a returned format group have a layout
\* similarity above 0.9.
C5_PairwiseSimilar ==
    pc = "fg_done" =>
        \A g \in 1..Len(similar_format_groups) :
            \A a, b \in 1..Len(similar_format_groups[g]) :
                a # b => score_gt(SimAt(similar_format_groups[g][a], similar_format_groups[g][b]), 9, 10)

\* C5 amended: every member of a returned format group but the first has a
\* layout similarity above 0.9 with the group's first member.
C5_SimilarToFirst ==
    pc = "fg_done" =>
        \A g \in 1..Len(similar_format_groups) :
            \A a \in 2..Len(similar_format_groups[g]) :
                score_gt(SimAt(similar_format_groups[g][1], similar_format_groups[g][a]), 9, 10)

\* Witness of C5: a returned group whose second and third member are not
\* similar above 0.9 to each other.
C5_Witness ==
    /\ pc = "fg_done"
    /\ \E g \in 1..Len(similar_format_groups) :
           /\ Len(similar_format_groups[g]) >= 3
           /\ ~score_gt(SimAt(similar_format_groups[g][2], similar_format_groups[g][3]), 9, 10)

\* Document j satisfies the grouping condition of lines 61 and 74 with the
\* document i.
GroupingCondition(i, j) ==
    /\ CanonicalAt(i) # CanonicalAt(j)
    /\ \E res \in {compare_formats(invoices[i], invoices[j])} :
           /\ ~res.raised
           /\ score_gt(res.sim, 9, 10)
           /\ PyEq(str_or_empty(invoices[i], "scanned_or_typed"),
                   str_or_empty(invoices[j], "scanned_or_typed"))
           /\ PyEq(str_or_empty(invoices[i], "handwritten_or_typed"),
                   str_or_empty(invoices[j], "handwritten_or_typed"))

\* The documents that were added to a returned group (all members but the
\* first), and the seeds: the documents that opened a candidate group.
Joined ==
    UNION {{similar_format_groups[g][a] : a \in 2..Len(similar_format_groups[g])} :
             g \in 1..Len(similar_format_groups)}

Seeds == (1..Len(invoices)) \ Joined

\* The seeds before document m whose grouping condition m satisfies.
SeedsFor(m) == {s \in Seeds : s < m /\ GroupingCondition(s, m)}

\* C17: find_similar_format_groups places each document in at most one
\* returned group, at one place, and a document joins the group of the
\* earliest seed in input order whose grouping condition it satisfies; a
\* document that satisfies the condition of no earlier seed is a seed itself.
C17_OneGroupEarliestSeed ==
    pc = "fg_done" =>
        /\ \A g, h \in 1..Len(similar_format_groups) :
               \A a \in 1..Len(similar_format_groups[g]), b \in 1..Len(similar_format_groups[h]) :
                   similar_format_groups[g][a] = similar_format_groups[h][b] => g = h /\ a = b
        /\ \A m \in 1..Len(invoices) :
               \E S \in {SeedsFor(m)} :
                   IF S = {} THEN m \in Seeds
                   ELSE \E g \in 1..Len(similar_format_groups) :
                           /\ \A s \in S : similar_format_groups[g][1] <= s
                           /\ similar_format_groups[g][1] \in S
                           /\ \E a \in 2..Len(similar_format_groups[g]) :
                                  similar_format_groups[g][a] = m

\* Witness of C17: a document that satisfies the grouping condition of two
\* seeds and is in the group of the earlier one.
C17_Witness ==
    /\ pc = "fg_done"
    /\ \E m \in 1..Len(invoices) :
           \E s1, s2 \in SeedsFor(m) :
               /\ s1 < s2
               /\ \E g \in 1..Len(similar_format_groups) :
                      /\ similar_format_groups[g][1] = s1
                      /\ m \in elems(similar_format_groups[g])

(***************************************************************************)
(* detect_red_flags (red_flags.py 84-180).                                 *)
(***************************************************************************)
GreenFlag == "Green Flag"

SharedContactInfo == "Shared Contact Info"

SameFormatDifferentVendor == "Same Format, Different Vendor"

DifferentFormatSameVendor == "Different Format, Same Vendor"

\* A value a for loop or a list concatenation accepts.
IsList(x) == x.t = "list"

\* Line 101
all_vendor_names(invs) == [i \in 1..Len(invs) |-> vendor_of(invs[i])]

\* Lines 111-114: the contacts of one record, phones first.
contacts_of(inv) ==
    Get(inv, "phone_numbers", PyList(<<>>)).v \o Get(inv, "email_addresses", PyList(<<>>)).v

\* Lines 106-114 raise TypeError on a record whose phone_numbers or
\* email_addresses is None.
lookup_raises(invs) ==
    \E i \in 1..Len(invs) :
        \/ ~IsList(Get(invs[i], "phone_numbers", PyList(<<>>)))
        \/ ~IsList(Get(invs[i], "email_addresses", PyList(<<>>)))

\* Lines 111-114 for all records: contact -> the canonical vendors appended,
\* in order.
RECURSIVE build_contact_map(_, _, _, _)
build_contact_map(invs, v2c, i, cm) ==
    IF i > Len(invs) THEN cm
    ELSE LET cs == contacts_of(invs[i])
             cv == canonical_vendor_of(invs[i], v2c)
             keys == DOMAIN cm \cup elems(cs)
             cm2 == [c \in keys |->
                        LET old == IF c \in DOMAIN cm THEN cm[c] ELSE <<>>
                        IN  old \o [k \in 1..count(c, cs) |-> cv]]
         IN  build_contact_map(invs, v2c, i + 1, cm2)

\* Line 116 for all records: canonical vendor -> its records, in order (by
\* position in the batch).
build_vendor_map(invs, v2c) ==
    LET cvs == {canonical_vendor_of(invs[i], v2c) : i \in 1..Len(invs)}
        positions == [i \in 1..Len(invs) |-> i]
    IN  [cv \in cvs |-> SelectSeq(positions, LAMBDA i : canonical_vendor_of(invs[i], v2c) = cv)]

\* Lines 122-125: file name -> index of its group (from 0); a later group
\* overwrites an earlier one.
build_doc_to_format_group(invs, fgs) ==
    LET in_group(f, g) == \E a \in 1..Len(fgs[g]) : invs[fgs[g][a]]["file_name"].v = f
        grouped == {invs[i]["file_name"].v : i \in {j \in 1..Len(invs) :
                        \E g \in 1..Len(fgs) : in_group(invs[j]["file_name"].v, g)}}
    IN  [f \in grouped |->
            (CHOOSE g \in 1..Len(fgs) :
                in_group(f, g) /\ \A h \in 1..Len(fgs) : in_group(f, h) => h <= g) - 1]


\* Rule 1 without its test on the vendors of the contact: the first contact
\* of the record, whoever uses it.
shared_contact_any(inv, cm, canonical_vendor) ==
    IF contacts_of(inv) = <<>> THEN <<>> ELSE <<contacts_of(inv)[1]>>

\* Lines 141-146: the first contact of the record, phones first, that the
\* index associates with several canonical vendors, one of them not the
\* record's own; <<>> when there is none, <<contact>> otherwise.
shared_contact(inv, cm, canonical_vendor) ==
    LET cs == contacts_of(inv)
        vendors(c) == elems(Get(cm, c, <<>>))
        hits == {k \in 1..Len(cs) :
                    /\ Cardinality(vendors(cs[k])) > 1
                    /\ Cardinality(vendors(cs[k]) \ {canonical_vendor}) > 0}
    IN  IF hits = {} THEN <<>>
        ELSE <<cs[CHOOSE k \in hits : \A h \in hits : k <= h]>>

\* Line 153: the other documents of the group, in group order.
other_docs(invs, group, inv) ==
    SelectSeq(group, LAMBDA d : ~PyEq(invs[d]["file_name"], inv["file_name"]))

\* Lines 153-155: doc['vendor_name'] raises KeyError when the key is absent
\* and ', '.join raises TypeError on a vendor name that is no string.
group_reason_raises(invs, group, inv) ==
    \E k \in 1..Len(other_docs(invs, group, inv)) :
        LET d == invs[other_docs(invs, group, inv)[k]]
        IN  "vendor_name" \notin DOMAIN d \/ d["vendor_name"].t # "str"

\* Lines 163-168: the comparison of a record with another record of its
\* canonical vendor; the record's own categories are normalised with
\* `or ""`, the other record's are passed as they are.
compare_same_vendor(inv, other) ==
    are_layouts_similar(Get(inv, "table_headers", PyList(<<>>)),
                        Get(other, "table_headers", PyList(<<>>)),
                        str_or_empty(inv, "scanned_or_typed"),
                        Get(other, "scanned_or_typed", PyNone),
                        Get(inv, "table_size", PyNone),
                        Get(other, "table_size", PyNone),
                        str_or_empty(inv, "handwritten_or_typed"),
                        Get(other, "handwritten_or_typed", PyNone))

\* Line 169: the other record disqualifies this one.
format_differs(sim, inv, other) ==
    \/ score_lt(sim, 4, 10)
    \/ ~PyEq(str_or_empty(inv, "scanned_or_typed"), Get(other, "scanned_or_typed", PyNone))
    \/ ~PyEq(str_or_empty(inv, "handwritten_or_typed"), str_or_empty(other, "handwritten_or_typed"))

\* Lines 159-172: the loop over the records of the canonical vendor from
\* position k of my_invoices on.  [raised, hit, sim]
RECURSIVE scan_same_vendor(_, _, _, _)
scan_same_vendor(invs, inv, my_invoices, k) ==
    IF k > Len(my_invoices) THEN [raised |-> FALSE, hit |-> FALSE, sim |-> ScoreZero]
    ELSE LET other == invs[my_invoices[k]]
         IN  IF DictEq(other, inv) THEN scan_same_vendor(invs, inv, my_invoices, k + 1)
             ELSE LET res == compare_same_vendor(inv, other)
                  IN  IF res.raised THEN [raised |-> TRUE, hit |-> FALSE, sim |-> ScoreZero]
                      ELSE IF format_differs(res.sim, inv, other)
                           THEN [raised |-> FALSE, hit |-> TRUE, sim |-> res.sim]
                           ELSE scan_same_vendor(invs, inv, my_invoices, k + 1)

\* The outcome of one pass of the loop of lines 127-178.
Flag(type, reason) == [raised |-> FALSE, flag_type |-> type, flag_reason |-> reason]

FlagRaised == [raised |-> TRUE, flag_type |-> "", flag_reason |-> <<>>]

\* Lines 141-146: the flag of rule 1 for the record, given its shared contact.
contact_flag(cm, contact) ==
    Flag(SharedContactInfo,
         <<"Contact ", contact, " used by multiple vendors: ", elems(Get(cm, contact, <<>>))>>)

\* Line 150
in_format_group(inv, d2g) == inv["file_name"].v \in DOMAIN d2g

\* Lines 151-155: the flag of rule 2 for a record of a format group.
group_flag(invs, inv, fgs, d2g) ==
    CHOOSE r \in
      {IF group_reason_raises(invs, fgs[group_idx + 1], inv) THEN FlagRaised
       ELSE Flag(SameFormatDifferentVendor,
                 <<"Part of format group with vendors: ",
                   [k \in 1..Len(others) |-> invs[others[k]]["vendor_name"].v],
                   " (group_id=", group_idx, ")">>)
         : group_idx \in {d2g[inv["file_name"].v]},
           others \in {other_docs(invs, fgs[d2g[inv["file_name"].v] + 1], inv)}} : TRUE

\* Lines 158-172: the flag of rule 3, or the green flag of lines 128-129.
vendor_flag(invs, inv, vm, canonical_vendor) ==
    CHOOSE f \in
      {IF r.raised THEN FlagRaised
       ELSE IF r.hit
            THEN Flag(DifferentFormatSameVendor,
                      <<"Other invoice for ", vendor_of(inv),
                        " has different format/layout (similarity=", r.sim, ")">>)
            ELSE Flag(GreenFlag, <<"No issues detected.">>)
         : r \in {scan_same_vendor(invs, inv, Get(vm, canonical_vendor, <<>>), 1)}} : TRUE

\* The order of the rules with rules 1 and 2 exchanged.
classify_group_first(invs, inv, v2c, cm, vm, fgs, d2g) ==
    IF ~IsList(Get(inv, "phone_numbers", PyList(<<>>)))
       \/ ~IsList(Get(inv, "email_addresses", PyList(<<>>))) THEN FlagRaised
    ELSE IF in_format_group(inv, d2g) THEN group_flag(invs, inv, fgs, d2g)
    ELSE IF shared_contact(inv, cm, canonical_vendor_of(inv, v2c)) # <<>>
         THEN contact_flag(cm, shared_contact(inv, cm, canonical_vendor_of(inv, v2c))[1])
    ELSE vendor_flag(invs, inv, vm, canonical_vendor_of(inv, v2c))

\* Lines 128-172: the rules in their order; a rule is tried only while the
\* flag is still the green one.  Line 141 (phones + emails) raises TypeError
\* when one of the two is None.
classify(invs, inv, v2c, cm, vm, fgs, d2g) ==
    IF ~IsList(Get(inv, "phone_numbers", PyList(<<>>)))
       \/ ~IsList(Get(inv, "email_addresses", PyList(<<>>))) THEN FlagRaised
    ELSE IF shared_contact(inv, cm, canonical_vendor_of(inv, v2c)) # <<>>
         THEN contact_flag(cm, shared_contact(inv, cm, canonical_vendor_of(inv, v2c))[1])
    ELSE IF in_format_group(inv, d2g) THEN group_flag(invs, inv, fgs, d2g)
    ELSE vendor_flag(invs, inv, vm, canonical_vendor_of(inv, v2c))

\* Lines 174-177 with 0 in place of None as the default of line 177.
annotate_default_zero(inv, f, v2c, d2g) ==
    LET a1 == SetKey(inv, "flag_type", PyStr(f.flag_type))
        a2 == SetKey(a1, "flag_reason", PyStr(f.flag_reason))
        a3 == SetKey(a2, "canonical_vendor", PyStr(canonical_vendor_of(inv, v2c)))
    IN  SetKey(a3, "format_group_id",
               IF inv["file_name"].v \in DOMAIN d2g THEN PyInt(d2g[inv["file_name"].v]) ELSE PyInt(0))

\* Lines 174-177: the record with its four annotations.
annotate(inv, f, v2c, d2g) ==
    LET a1 == SetKey(inv, "flag_type", PyStr(f.flag_type))
        a2 == SetKey(a1, "flag_reason", PyStr(f.flag_reason))
        a3 == SetKey(a2, "canonical_vendor", PyStr(canonical_vendor_of(inv, v2c)))
    IN  SetKey(a3, "format_group_id",
               IF inv["file_name"].v \in DOMAIN d2g THEN PyInt(d2g[inv["file_name"].v]) ELSE PyNone)


(***************************************************************************)
(* Specification of detect_red_flags: any batch of at most MaxInvoices     *)
(* records with distinct file names, then the call, step by step.          *)
(***************************************************************************)
Phone == "9999999999"

Email == "billing@example.com"

NoContacts == PyList(<<>>)

\* Complete records: three vendor names ("acme bolt" is canonicalised with
\* "acme"), with or without the phone, the same headers.
CoreFields ==
    {Fields(PyStr("acme"), ph, NoContacts, HeadersIQP, PyNone, PyStr("scanned"), PyStr("typed")) :
        ph \in {NoContacts, PyList(<<Phone>>)}}
    \cup
    {Fields(PyStr("zen"), ph, NoContacts, HeadersIQP, PyNone, PyStr("scanned"), PyStr("typed")) :
        ph \in {NoContacts, PyList(<<Phone>>)}}
    \cup
    {Fields(PyStr("acme bolt"), NoContacts, NoContacts, h, PyNone, PyStr("scanned"), PyStr("typed")) :
        h \in {HeadersIQP, HeadersTotal}}

\* Complete records with a table size.
SizedFields ==
    {Fields(PyStr(v), NoContacts, NoContacts, HeadersIQP, Size2x3, PyStr("scanned"), PyStr("typed")) :
        v \in {"acme", "zen"}}

\* Complete records with an e-mail address.
EmailFields ==
    {Fields(PyStr("zen"), NoContacts, PyList(<<Email>>), HeadersIQP, PyNone, PyStr("scanned"), PyStr("typed")),
     Fields(PyStr("acme bolt"), NoContacts, PyList(<<Email>>), HeadersTotal, PyNone, PyStr("scanned"), PyStr("typed"))}

\* Partial records: a null phone list, a null scan type, an empty scan type,
\* null headers, no vendor name at all.
PartialFields ==
    {Fields(PyStr("acme"), PyNone, NoContacts, HeadersIQP, PyNone, PyStr("scanned"), PyStr("typed")),
     Fields(PyStr("acme"), NoContacts, NoContacts, HeadersIQP, PyNone, PyNone, PyStr("typed")),
     Fields(PyStr("acme"), NoContacts, NoContacts, HeadersIQP, PyNone, PyStr(""), PyStr("typed")),
     Fields(PyStr("zen"), NoContacts, NoContacts, PyNone, PyNone, PyStr("scanned"), PyStr("typed")),
     DelKey(Fields(PyNone, NoContacts, NoContacts, HeadersIQP, PyNone, PyStr("scanned"), PyStr("typed")),
            "vendor_name")}

RecordChoices == CoreFields \cup SizedFields \cup EmailFields \cup PartialFields

Init ==
    /\ pc = "start"
    /\ \E fs \in SeqsUpTo(RecordChoices, MaxInvoices) : invoices = Batch(fs)
    /\ batch = invoices
    /\ vendor_names = <<>> /\ groups = <<>> /\ vendor_to_canonical = <<>>
    /\ contact_map = <<>> /\ vendor_map = <<>>
    /\ similar_format_groups = <<>> /\ doc_to_format_group = <<>>
    /\ NoApp
    /\ flagged = <<>> /\ idx = 0 /\ layout_args = <<>> /\ layout_ret = <<>>

\* Lines 101-102
CanonicalizeVendors ==
    /\ pc = "start"
    /\ vendor_names' = all_vendor_names(invoices)
    /\ groups' = greedy_groups(<<>>, vendor_names', VendorThreshold)
    /\ vendor_to_canonical' = group_similar_vendors(vendor_names')
    /\ pc' = "lookup"
    /\ UNCHANGED app_vars
    /\ UNCHANGED <<invoices, batch, contact_map, vendor_map, similar_format_groups,
                   doc_to_format_group, flagged, idx, layout_args, layout_ret>>

\* Lines 105-116
BuildLookup ==
    /\ pc = "lookup"
    /\ IF lookup_raises(invoices)
       THEN /\ pc' = "raised"
            /\ UNCHANGED <<contact_map, vendor_map>>
       ELSE /\ contact_map' = build_contact_map(invoices, vendor_to_canonical, 1, <<>>)
            /\ vendor_map' = build_vendor_map(invoices, vendor_to_canonical)
            /\ pc' = "groups"
    /\ UNCHANGED app_vars
    /\ UNCHANGED <<invoices, batch, vendor_names, groups, vendor_to_canonical,
                   similar_format_groups, doc_to_format_group, flagged, idx,
                   layout_args, layout_ret>>

\* Lines 119-125
FindFormatGroups ==
    /\ pc = "groups"
    /\ LET r == find_similar_format_groups(invoices, vendor_to_canonical)
       IN  IF r.raised
           THEN /\ pc' = "raised"
                /\ UNCHANGED <<similar_format_groups, doc_to_format_group, idx>>
           ELSE /\ similar_format_groups' = r.groups
                /\ doc_to_format_group' = build_doc_to_format_group(invoices, r.groups)
                /\ idx' = 1
                /\ pc' = "classify"
    /\ UNCHANGED app_vars
    /\ UNCHANGED <<invoices, batch, vendor_names, groups, vendor_to_canonical,
                   contact_map, vendor_map, flagged, layout_args, layout_ret>>

\* Lines 127-178, one record: the flag, then the record is annotated in
\* place and appended to the result.
ClassifyRecord ==
    /\ pc = "classify"
    /\ idx <= Len(invoices)
    /\ \E f \in {classify(invoices, invoices[idx], vendor_to_canonical, contact_map,
                          vendor_map, similar_format_groups, doc_to_format_group)} :
           IF f.raised
           THEN /\ pc' = "raised"
                /\ UNCHANGED <<invoices, flagged, idx>>
           ELSE \E inv \in {annotate(invoices[idx], f, vendor_to_canonical, doc_to_format_group)} :
                /\ invoices' = [invoices EXCEPT ![idx] = inv]
                /\ flagged' = Append(flagged, inv)
                /\ idx' = idx + 1
                /\ pc' = "classify"
    /\ UNCHANGED app_vars
    /\ UNCHANGED <<batch, vendor_names, groups, vendor_to_canonical, contact_map,
                   vendor_map, similar_format_groups, doc_to_format_group,
                   layout_args, layout_ret>>

\* Line 180
Return ==
    /\ pc = "classify"
    /\ idx > Len(invoices)
    /\ pc' = "done"
    /\ UNCHANGED app_vars
    /\ UNCHANGED <<invoices, batch, vendor_names, groups, vendor_to_canonical,
                   contact_map, vendor_map, similar_format_groups,
                   doc_to_format_group, flagged, idx, layout_args, layout_ret>>

Next ==
    \/ CanonicalizeVendors
    \/ BuildLookup
    \/ FindFormatGroups
    \/ ClassifyRecord
    \/ Return

Spec == Init /\ [][Next]_vars


(***************************************************************************)
(* Properties of detect_red_flags, stated on the batch as it was passed    *)
(* (batch) and on the list returned (flagged).                             *)
(***************************************************************************)
Positions == 1..Len(batch)

FlagTypes == {GreenFlag, SharedContactInfo, SameFormatDifferentVendor, DifferentFormatSameVendor}

\* The flag and the reason of the i-th returned record.
FlagAt(i) == flagged[i]["flag_type"].v

ReasonAt(i) == flagged[i]["flag_reason"].v

\* The canonical vendor the i-th record of the batch resolves to.
CanonicalOf(i) == canonical_vendor_of(batch[i], vendor_to_canonical)

\* The contacts of record i that are also on a record of another canonical
\* vendor.
SharedContacts(i) ==
    {c \in elems(contacts_of(batch[i])) :
        \E j \in Positions \ {i} :
            CanonicalOf(j) # CanonicalOf(i) /\ c \in elems(contacts_of(batch[j]))}

\* Record i is a member of a returned format group.
InFormatGroup(i) ==
    \E g \in 1..Len(similar_format_groups) : i \in elems(similar_format_groups[g])

\* The test of rule 3 succeeds on record i and another record of its
\* canonical vendor.
DiffersFromOwnVendor(i) ==
    \E j \in Positions \ {i} :
        /\ CanonicalOf(j) = CanonicalOf(i)
        /\ \E res \in {compare_same_vendor(batch[i], batch[j])} :
               ~res.raised /\ format_differs(res.sim, batch[i], batch[j])

\* C1: every call of detect_red_flags on a batch with unique file names
\* returns, and returns one record per input record, in input order, each
\* with one of the four flag types, a non-empty reason, a canonical vendor and
\* a format group id (an integer or null).
C1_OneRecordPerInput ==
    pc \in {"done", "raised"} =>
        /\ pc = "done"
        /\ Len(flagged) = Len(batch)
        /\ \A i \in Positions :
               /\ flagged[i]["file_name"] = batch[i]["file_name"]
               /\ FlagAt(i) \in FlagTypes
               /\ ReasonAt(i) # <<>>
               /\ flagged[i]["canonical_vendor"].t = "str"
               /\ flagged[i]["format_group_id"].t \in {"int", "none"}

\* C2: every returned record carries the flag of the earliest rule it
\* satisfies, in the order Shared Contact Info, Same Format Different Vendor,
\* Different Format Same Vendor; a record that satisfies none is Green Flag
\* with the reason "No issues detected.", as is the record of a batch of one.
C2_Precedence ==
    pc = "done" =>
        \A i \in Positions :
            /\ FlagAt(i) = IF SharedContacts(i) # {} THEN SharedContactInfo
                           ELSE IF InFormatGroup(i) THEN SameFormatDifferentVendor
                           ELSE IF DiffersFromOwnVendor(i) THEN DifferentFormatSameVendor
                           ELSE GreenFlag
            /\ FlagAt(i) = GreenFlag => ReasonAt(i) = <<"No issues detected.">>
            /\ Len(batch) = 1 => FlagAt(i) = GreenFlag

\* Witness of C2: a returned record that satisfies the three rules and is
\* flagged Shared Contact Info.
C2_Witness ==
    /\ pc = "done"
    /\ \E i \in Positions :
           /\ SharedContacts(i) # {}
           /\ InFormatGroup(i)
           /\ DiffersFromOwnVendor(i)
           /\ FlagAt(i) = SharedContactInfo

\* C3: a returned record is flagged Shared Contact Info if and only if one of
\* its phone numbers or e-mail addresses is also on a record of the batch of
\* another canonical vendor, and then the reason names such a contact.
C3_SharedContactIff ==
    pc = "done" =>
        \A i \in Positions :
            /\ FlagAt(i) = SharedContactInfo <=> SharedContacts(i) # {}
            /\ FlagAt(i) = SharedContactInfo => ReasonAt(i)[2] \in SharedContacts(i)

\* Witness of C3: two records with the same phone number and different
\* canonical vendors, both flagged Shared Contact Info for that number.
C3_Witness ==
    /\ pc = "done"
    /\ \E i, j \in Positions :
           /\ i # j
           /\ CanonicalOf(i) # CanonicalOf(j)
           /\ Phone \in elems(batch[i]["phone_numbers"].v) \cap elems(batch[j]["phone_numbers"].v)
           /\ FlagAt(i) = SharedContactInfo /\ ReasonAt(i)[2] = Phone
           /\ FlagAt(j) = SharedContactInfo /\ ReasonAt(j)[2] = Phone

\* The batch of scenario 2: several records of pairwise distinct canonical
\* vendors, without contacts in common, with the same non-empty headers, the
\* same present table size and the same categories.
UniformBatch ==
    /\ Len(batch) >= 2
    /\ \A i \in Positions :
           /\ IsList(batch[i]["phone_numbers"]) /\ IsList(batch[i]["email_addresses"])
           /\ "vendor_name" \in DOMAIN batch[i]
           /\ batch[i]["table_headers"] = batch[1]["table_headers"]
           /\ IsList(batch[i]["table_headers"]) /\ batch[i]["table_headers"].v # <<>>
           /\ batch[i]["table_size"] = batch[1]["table_size"]
           /\ batch[i]["table_size"].t = "dict"
           /\ batch[i]["scanned_or_typed"] = batch[1]["scanned_or_typed"]
           /\ batch[i]["handwritten_or_typed"] = batch[1]["handwritten_or_typed"]
    /\ \A i, j \in Positions :
           i # j => /\ CanonicalOf(i) # CanonicalOf(j)
                    /\ elems(contacts_of(batch[i])) \cap elems(contacts_of(batch[j])) = {}

\* C6: on a batch of scenario 2, find_similar_format_groups returns one group
\* holding all the records and detect_red_flags flags every record Same
\* Format, Different Vendor with the same format group id.
C6_OneGroupAllFlagged ==
    (pc \in {"done", "raised"} /\ UniformBatch) =>
        /\ pc = "done"
        /\ similar_format_groups = <<[i \in Positions |-> i]>>
        /\ \A i \in Positions :
               /\ FlagAt(i) = SameFormatDifferentVendor
               /\ flagged[i]["format_group_id"] = PyInt(0)

\* Records i and j differ in layout as rule 3 is specified: their layout
\* similarity is below 0.4, or their scan types differ, or their handwriting
\* categories differ, a category that is absent, null or empty being the
\* unknown category on either record.
LayoutDiffers(i, j) ==
    \/ score_lt(compare_formats(batch[i], batch[j]).sim, 4, 10)
    \/ ~PyEq(str_or_empty(batch[i], "scanned_or_typed"), str_or_empty(batch[j], "scanned_or_typed"))
    \/ ~PyEq(str_or_empty(batch[i], "handwritten_or_typed"),
             str_or_empty(batch[j], "handwritten_or_typed"))

\* C7: a returned record that rules 1 and 2 did not flag is flagged Different
\* Format, Same Vendor if and only if another record of its canonical vendor
\* differs from it in layout (LayoutDiffers), and is Green Flag otherwise.
C7_DifferentFormatIff ==
    pc = "done" =>
        \A i \in Positions :
            FlagAt(i) \notin {SharedContactInfo, SameFormatDifferentVendor} =>
                /\ FlagAt(i) = DifferentFormatSameVendor <=>
                       \E j \in Positions \ {i} :
                           CanonicalOf(j) = CanonicalOf(i) /\ LayoutDiffers(i, j)
                /\ FlagAt(i) # DifferentFormatSameVendor => FlagAt(i) = GreenFlag

\* C8: detect_red_flags raises no exception, whatever fields of the records
\* are absent, null or empty, and classifies every record.
C8_NoException ==
    /\ pc # "raised"
    /\ pc = "done" => Len(flagged) = Len(batch)

\* C16: detect_red_flags leaves its input as it was: after the call every
\* record of the batch passed has the fields and values it had before.
C16_InputUnchanged ==
    pc = "done" => invoices = batch

\* The index (from 0) of the returned format group that holds record i.
GroupIndexOf(i) ==
    (CHOOSE g \in 1..Len(similar_format_groups) : i \in elems(similar_format_groups[g])) - 1

Disqualifies(i, j) ==
    \E res \in {compare_same_vendor(batch[i], batch[j])} :
        ~res.raised /\ format_differs(res.sim, batch[i], batch[j])

\* C20: for two returned records of the same canonical vendor, neither
\* flagged by rule 1 or rule 2, if the comparison of the one against the
\* other disqualifies it (it is flagged Different Format, Same Vendor), then
\* the other is flagged Different Format, Same Vendor as well.
C20_Rule3Mutual ==
    pc = "done" =>
        \A i, j \in Positions :
            ( /\ i # j
              /\ CanonicalOf(i) = CanonicalOf(j)
              /\ FlagAt(i) \notin {SharedContactInfo, SameFormatDifferentVendor}
              /\ FlagAt(j) \notin {SharedContactInfo, SameFormatDifferentVendor}
              /\ Disqualifies(i, j)
              /\ FlagAt(i) = DifferentFormatSameVendor )
            => FlagAt(j) = DifferentFormatSameVendor


(***************************************************************************)
(* The batch run of the application (app.py 40-164): one extraction task   *)
(* per uploaded file on a thread pool, the collection of the results, the  *)
(* preparation of the batch and the call of detect_red_flags.              *)
(***************************************************************************)
MaxDocs == 2

MaxPages == 2

\* app.py 106: ThreadPoolExecutor(max_workers=7)
MaxWorkers == 7

\* The names of the uploads that are images; the PDFs take theirs from
\* FileNames.
ImageNames == <<"scan 1.png", "scan 2.png", "scan 3.png">>

\* extractor.py 73: file_path.lower().endswith('.pdf')
is_pdf(name) == \E k \in 1..Len(FileNames) : name = FileNames[k]

\* utils.py 26: re.sub(r'[^a-zA-Z0-9_.-]', '_', filename), on the names of the
\* model (only the space of the image names is replaced).
sanitize(name) ==
    CASE name = "scan 1.png" -> "scan_1.png"
      [] name = "scan 2.png" -> "scan_2.png"
      [] name = "scan 3.png" -> "scan_3.png"
      [] OTHER -> name

\* app.py 44: str(uuid.uuid4())[:8], taken as distinct for distinct tasks.
file_id(i) == <<"0a1b2c3d", "4e5f6a7b", "8c9d0e1f">>[i]

\* utils.py 27-33: the path the upload is saved to.
upload_path(uid, name) == "data/uploads/" \o uid \o "_" \o sanitize(name)

\* extractor.py 98-99: the path of image img_index of page page_num; it does
\* not depend on the document.
image_path(page_num, img_index) ==
    <<"temp/extracted_image_0_0.png", "temp/extracted_image_1_0.png",
      "temp/extracted_image_2_0.png">>[page_num + 1]

\* An uploaded file: its name, the number of its pages (each page of a PDF
\* holds one image; an image file has none) and the page whose reading fails
\* in extract_images_from_file (0-based; MaxPages + 1 when every page reads).
Upload(name, pages, broken) == [name |-> name, pages |-> pages, broken |-> broken]

UploadChoices(i) ==
    {Upload(ImageNames[i], 0, MaxPages + 1)}
    \cup {Upload(FileNames[i], pg, MaxPages + 1) : pg \in 1..MaxPages}
    \cup {Upload(FileNames[i], pb[1], pb[2]) :
            pb \in {x \in (2..MaxPages) \X (1..MaxPages) : x[2] < x[1]}}

\* What the language model answers: the call raises, or it returns a text,
\* which json.loads parses to a value or refuses.
Response(raises, text, is_json, value) ==
    [raises |-> raises, text |-> text, is_json |-> is_json, value |-> value]

AcmeMapping ==
    PyDict(Fields(PyStr("acme"), PyList(<<Phone>>), NoContacts, HeadersIQP, PyNone,
                  PyStr("scanned"), PyStr("typed")))

ZenMapping == PyDict([vendor_name |-> PyStr("zen"), phone_numbers |-> PyList(<<Phone>>)])

RefusalMapping == PyDict([error |-> PyStr("not an invoice")])

Responses ==
    {Response(TRUE, "", FALSE, PyNone),
     Response(FALSE, "I could not find an invoice.", FALSE, PyNone),
     Response(FALSE, "[1, 2]", TRUE, PyList(<<1, 2>>)),
     Response(FALSE, "{acme}", TRUE, AcmeMapping),
     Response(FALSE, "{zen}", TRUE, ZenMapping),
     Response(FALSE, "{error}", TRUE, RefusalMapping)}

\* llm_extractor.py 66-69 and 73-76: the error payloads.
ErrorPayload(error, raw_output) ==
    PyDict([error |-> PyStr(error), raw_output |-> PyStr(raw_output)])

\* llm_extractor.py 31-76.  The f-string of line 58 calls keys() on the parsed
\* value: on a value that is no dict this raises AttributeError, which the
\* handler of line 62 does not catch and the handler of line 71 does.
extract_invoice_fields_with_llm(response) ==
    IF response.raises THEN ErrorPayload("LLM extraction failed", "")
    ELSE IF ~response.is_json
         THEN ErrorPayload("Failed to parse LLM response", response.text)
    ELSE IF response.value.t # "dict" THEN ErrorPayload("LLM extraction failed", "")
    ELSE response.value

\* app.py 47-52
new_result(name) ==
    [file_name |-> PyStr(name), error |-> PyNone, ocr_result |-> PyNone, structured |-> PyNone]

\* extractor.py 46-50 and 63-67: what process_file_ocr returns.
ocr_result_of(name) ==
    PyDict([ocr_text |-> PyStr(IF is_pdf(name) THEN "text of " \o name
                                ELSE "Image OCR not implemented"),
            file_type |-> PyStr(IF is_pdf(name) THEN "pdf" ELSE "image")])

\* app.py 77 and 87-91: the result once the language model has answered.
with_structured(result, structured) ==
    IF structured.t = "dict" /\ "error" \in DOMAIN structured.v
    THEN SetKey(SetKey([result EXCEPT !.structured = structured],
                       "error", PyStr("LLM Error: " \o Get(structured.v, "error", PyNone).v)),
                "raw_output", Get(structured.v, "raw_output", PyStr("")))
    ELSE [result EXCEPT !.structured = structured]

\* app.py 130 with the test narrowed to a missing OCR result.
ocr_missing(res) == res["ocr_result"].t = "none"

\* app.py 130: if res.get("error")
has_error(res) == Truthy(Get(res, "error", PyNone))

\* app.py 146-157: the record prepared for the correlation engine.
invoice_record(res) ==
    [file_name |-> res["file_name"],
     vendor_name |-> Get(res["structured"].v, "vendor_name", PyStr("")),
     phone_numbers |-> Get(res["structured"].v, "phone_numbers", PyList(<<>>)),
     email_addresses |-> Get(res["structured"].v, "email_addresses", PyList(<<>>)),
     gst_or_pan |-> Get(res["structured"].v, "gst_or_pan", PyStr("")),
     table_headers |-> Get(res["structured"].v, "table_headers", PyList(<<>>)),
     table_row_data |-> Get(res["structured"].v, "table_row_data", PyList(<<>>)),
     table_size |-> Get(res["structured"].v, "table_size", PyNone),
     scanned_or_typed |-> Get(res["structured"].v, "scanned_or_typed", PyStr("")),
     handwritten_or_typed |-> Get(res["structured"].v, "handwritten_or_typed", PyStr(""))]

\* The state of the task of one upload: where process_invoice stands, the
\* page extract_images_from_file is at, its local list image_paths, the paths
\* the task has written so far, the answer of the language model, the result
\* being built, the position of cleanup_images in its list, and whether the
\* main thread has taken the result.
new_task(name) ==
    [pc |-> "pending", page_num |-> 0, image_paths |-> <<>>, written |-> {},
     response |-> Response(TRUE, "", FALSE, PyNone), result |-> new_result(name),
     cleaned |-> 0, collected |-> FALSE]

Docs == 1..Len(uploaded_files)

Running(i) == tasks[i].pc \notin {"pending", "returned"}

\* Lines 64-68 against line 69: where process_invoice goes after the save and
\* the OCR.
after_ocr_stuck(outcome) == IF outcome = "ok" THEN "images" ELSE "save"

after_ocr(outcome) == IF outcome = "ok" THEN "images" ELSE "returned"

\* Line 110: as_completed is exhausted once every future has been yielded.
any_collected(ts) == \E i \in DOMAIN ts : ts[i].collected

as_completed_exhausted(ts) == \A i \in DOMAIN ts : ts[i].collected

InitApp ==
    /\ pc = "idle"
    /\ \E n \in 1..MaxDocs :
         /\ uploaded_files \in [1..n -> UNION {UploadChoices(i) : i \in 1..n}]
         /\ \A i \in 1..n : uploaded_files[i] \in UploadChoices(i)
    /\ tasks = <<>> /\ files = <<>> /\ results = <<>> /\ all_invoice_data = <<>>
    /\ reference = <<>>
    /\ invoices = <<>> /\ batch = <<>>
    /\ vendor_names = <<>> /\ groups = <<>> /\ vendor_to_canonical = <<>>
    /\ contact_map = <<>> /\ vendor_map = <<>>
    /\ similar_format_groups = <<>> /\ doc_to_format_group = <<>>
    /\ flagged = <<>> /\ idx = 0 /\ layout_args = <<>> /\ layout_ret = <<>>

detect_vars == <<invoices, batch, vendor_names, groups, vendor_to_canonical, contact_map, vendor_map, similar_format_groups, doc_to_format_group, flagged, layout_args, layout_ret>>

\* app.py 99-107: the batch lists are created and one task per upload is
\* submitted to the pool.
Submit ==
    /\ pc = "idle"
    /\ uploaded_files # <<>>
    /\ tasks' = [i \in Docs |-> new_task(uploaded_files[i].name)]
    /\ results' = <<>> /\ all_invoice_data' = <<>>
    /\ pc' = "collect"
    /\ UNCHANGED <<uploaded_files, files, idx>>
    /\ UNCHANGED <<detect_vars, reference>>

\* A worker of the pool takes the next task of the queue (app.py 106: at most
\* MaxWorkers run at a time) and enters process_invoice (lines 42-52).
StartTask(i) ==
    /\ pc # "idle"
    /\ i \in DOMAIN tasks
    /\ tasks[i].pc = "pending"
    /\ \A j \in 1..i - 1 : tasks[j].pc # "pending"
    /\ Cardinality({j \in DOMAIN tasks : Running(j)}) < MaxWorkers
    /\ tasks' = [tasks EXCEPT ![i].pc = "save"]
    /\ UNCHANGED <<pc, idx, uploaded_files, files, results, all_invoice_data>>
    /\ UNCHANGED <<detect_vars, reference>>

\* app.py 54-68: the upload is saved under its own path and read; a failure
\* of either is recorded and the task returns.
SaveAndOcr(i) ==
    /\ i \in DOMAIN tasks
    /\ tasks[i].pc = "save"
    /\ \E outcome \in {"ok", "save failed", "ocr failed"} :
         /\ files' = IF outcome = "save failed" THEN files
                     ELSE SetKey(files, upload_path(file_id(i), uploaded_files[i].name), i)
         /\ tasks' = [tasks EXCEPT
                        ![i].pc = after_ocr(outcome),
                        ![i].result = IF outcome = "ok"
                                      THEN [@ EXCEPT !.ocr_result = ocr_result_of(uploaded_files[i].name)]
                                      ELSE [@ EXCEPT !.error = PyStr("OCR failed: " \o outcome)]]
    /\ UNCHANGED <<pc, idx, uploaded_files, results, all_invoice_data>>
    /\ UNCHANGED <<detect_vars, reference>>

\* extractor.py 81-112: the image of the next page is written and its path
\* is appended to the list.
ExtractImage(i) ==
    /\ i \in DOMAIN tasks
    /\ tasks[i].pc = "images"
    /\ is_pdf(uploaded_files[i].name)
    /\ tasks[i].page_num < uploaded_files[i].pages
    /\ tasks[i].page_num # uploaded_files[i].broken
    /\ \E path \in {image_path(tasks[i].page_num, 0)} :
         /\ files' = SetKey(files, path, i)
         /\ tasks' = [tasks EXCEPT ![i].page_num = @ + 1,
                                   ![i].image_paths = Append(@, path),
                                   ![i].written = @ \cup {path}]
    /\ UNCHANGED <<pc, idx, uploaded_files, results, all_invoice_data>>
    /\ UNCHANGED <<detect_vars, reference>>

\* extractor.py 82-83 and 118-120: reading a page raises; the handler returns
\* an empty list, whatever was written before.
ExtractFails(i) ==
    /\ i \in DOMAIN tasks
    /\ tasks[i].pc = "images"
    /\ is_pdf(uploaded_files[i].name)
    /\ tasks[i].page_num < uploaded_files[i].pages
    /\ tasks[i].page_num = uploaded_files[i].broken
    /\ tasks' = [tasks EXCEPT ![i].pc = "llm", ![i].image_paths = <<>>]
    /\ UNCHANGED <<pc, idx, uploaded_files, files, results, all_invoice_data>>
    /\ UNCHANGED <<detect_vars, reference>>

\* extractor.py 73-75 (not a PDF: no image) and 114-116 (every page done).
ExtractDone(i) ==
    /\ i \in DOMAIN tasks
    /\ tasks[i].pc = "images"
    /\ is_pdf(uploaded_files[i].name) => tasks[i].page_num >= uploaded_files[i].pages
    /\ tasks' = [tasks EXCEPT ![i].pc = "llm"]
    /\ UNCHANGED <<pc, idx, uploaded_files, files, results, all_invoice_data>>
    /\ UNCHANGED <<detect_vars, reference>>

\* app.py 76-91: the language model is asked and its answer recorded.  Both
\* callees catch every Exception, so the handler of lines 80-85 is not entered.
CallLLM(i) ==
    /\ i \in DOMAIN tasks
    /\ tasks[i].pc = "llm"
    /\ \E response \in Responses :
         \E structured \in {extract_invoice_fields_with_llm(response)} :
           tasks' = [tasks EXCEPT ![i].pc = "cleanup",
                                  ![i].response = response,
                                  ![i].result = with_structured(@, structured)]
    /\ UNCHANGED <<pc, idx, uploaded_files, files, results, all_invoice_data>>
    /\ UNCHANGED <<detect_vars, reference>>

\* extractor.py 126-132: the next path of the list is removed if it exists.
CleanupImage(i) ==
    /\ i \in DOMAIN tasks
    /\ tasks[i].pc = "cleanup"
    /\ tasks[i].cleaned < Len(tasks[i].image_paths)
    /\ files' = DelKey(files, tasks[i].image_paths[tasks[i].cleaned + 1])
    /\ tasks' = [tasks EXCEPT ![i].cleaned = @ + 1]
    /\ UNCHANGED <<pc, idx, uploaded_files, results, all_invoice_data>>
    /\ UNCHANGED <<detect_vars, reference>>

\* app.py 96-97
ReturnResult(i) ==
    /\ i \in DOMAIN tasks
    /\ tasks[i].pc = "cleanup"
    /\ tasks[i].cleaned >= Len(tasks[i].image_paths)
    /\ tasks' = [tasks EXCEPT ![i].pc = "returned"]
    /\ UNCHANGED <<pc, idx, uploaded_files, files, results, all_invoice_data>>
    /\ UNCHANGED <<detect_vars, reference>>

\* app.py 110-115: as_completed yields a finished task, whose result is
\* appended to results.
Collect(i) ==
    /\ pc = "collect"
    /\ i \in DOMAIN tasks
    /\ tasks[i].pc = "returned"
    /\ ~tasks[i].collected
    /\ results' = Append(results, tasks[i].result)
    /\ tasks' = [tasks EXCEPT ![i].collected = TRUE]
    /\ UNCHANGED <<pc, idx, uploaded_files, files, all_invoice_data>>
    /\ UNCHANGED <<detect_vars, reference>>

\* app.py 110 and 125: the loop over as_completed ends and the pool is left.
ExitPool ==
    /\ pc = "collect"
    /\ as_completed_exhausted(tasks)
    /\ pc' = "display"
    /\ idx' = 1
    /\ UNCHANGED <<uploaded_files, tasks, files, results, all_invoice_data>>
    /\ UNCHANGED <<detect_vars, reference>>

\* app.py 128-157: one result is shown; without error its record is appended
\* to the batch.
DisplayResult ==
    /\ pc = "display"
    /\ idx <= Len(results)
    /\ all_invoice_data' = IF has_error(results[idx]) THEN all_invoice_data
                           ELSE Append(all_invoice_data, invoice_record(results[idx]))
    /\ idx' = idx + 1
    /\ UNCHANGED <<pc, uploaded_files, tasks, files, results>>
    /\ UNCHANGED <<detect_vars, reference>>

\* app.py 164: detect_red_flags(all_invoice_data)
InvokeDetect ==
    /\ pc = "display"
    /\ idx > Len(results)
    /\ invoices' = all_invoice_data
    /\ batch' = all_invoice_data
    /\ pc' = "start"
    /\ idx' = 0
    /\ UNCHANGED app_vars
    /\ UNCHANGED <<vendor_names, groups, vendor_to_canonical, contact_map, vendor_map, similar_format_groups, doc_to_format_group, flagged, layout_args, layout_ret>>

TaskStep(i) ==
    \/ StartTask(i)
    \/ SaveAndOcr(i)
    \/ ExtractImage(i)
    \/ ExtractFails(i)
    \/ ExtractDone(i)
    \/ CallLLM(i)
    \/ CleanupImage(i)
    \/ ReturnResult(i)

\* A step of the batch run before detect_red_flags is entered.
AppStep ==
    \/ Submit
    \/ \E i \in 1..MaxDocs : TaskStep(i)
    \/ \E i \in 1..MaxDocs : Collect(i)
    \/ ExitPool
    \/ DisplayResult
    \/ InvokeDetect

NextApp ==
    \/ AppStep
    \/ Next

SpecApp == InitApp /\ [][NextApp]_vars

\* The main thread and the workers of the pool are scheduled again and
\* again: while one of them can take a step, a step is taken.
FairSpecApp == SpecApp /\ WF_vars(AppStep)

(***************************************************************************)
(* Properties of the batch run.                                            *)
(***************************************************************************)
\* detect_red_flags has been called (app.py 164).
DetectInvoked == pc \notin {"idle", "collect", "display"}

\* C11: in the batch run, detect_red_flags is invoked only after every
\* submitted extraction task has returned and its result has been collected;
\* it is never invoked while a task is pending or running.
C11_DetectAfterAllCollected ==
    DetectInvoked =>
        /\ \A i \in Docs : tasks[i].pc = "returned" /\ tasks[i].collected
        /\ Len(results) = Len(uploaded_files)

\* Two uploads, the second of which finished and was collected first, and
\* detect_red_flags has been called.
C11_Witness ==
    /\ DetectInvoked
    /\ Len(uploaded_files) = 2
    /\ results[1]["file_name"] = PyStr(uploaded_files[2].name)

\* The results list holds one entry for each upload.
OneEntryPerUpload ==
    /\ Len(results) = Len(uploaded_files)
    /\ \A i \in Docs :
         Cardinality({k \in DOMAIN results :
                        results[k]["file_name"] = PyStr(uploaded_files[i].name)}) = 1

\* C12: once the pool is left the results list holds exactly one entry for
\* every uploaded document, and whatever fails in the OCR or the extraction
\* of a document, the run reaches the call of detect_red_flags.
C12_OneEntryEachAndDetectReached ==
    /\ [](pc \notin {"idle", "collect"} => OneEntryPerUpload)
    /\ <>DetectInvoked

\* detect_red_flags has been called in a run where the OCR of one document
\* failed and another document was extracted without error.
C12_Witness ==
    /\ DetectInvoked
    /\ \E i, j \in Docs :
         /\ tasks[i].result["ocr_result"].t = "none"
         /\ tasks[i].result["error"].t = "str"
         /\ tasks[j].result["error"].t = "none"

\* The document of upload i is in the batch passed to detect_red_flags.
InCorrelationBatch(i) ==
    \E k \in DOMAIN batch : batch[k]["file_name"] = PyStr(uploaded_files[i].name)

\* C13: a document is in the batch passed to detect_red_flags if and only if
\* its extraction result carries no error (no failed OCR, no failed or
\* malformed answer of the language model).
C13_InBatchIffNoError ==
    DetectInvoked =>
        \A i \in Docs : InCorrelationBatch(i) <=> tasks[i].result["error"].t = "none"

\* detect_red_flags was called with one of two documents: the answer for the
\* other one was not JSON.
C13_Witness ==
    /\ DetectInvoked
    /\ Len(batch) = 1
    /\ \E i \in Docs :
         /\ tasks[i].pc = "returned"
         /\ ~tasks[i].response.raises
         /\ ~tasks[i].response.is_json
         /\ ~InCorrelationBatch(i)

\* The language model answered, and its answer is not a mapping: it is no
\* JSON at all, or JSON of another shape (a list, a string, a number, null).
NotAMapping(response) ==
    ~response.raises /\ (~response.is_json \/ response.value.t # "dict")

\* The task of upload i is past the call of the language model.
Answered(i) ==
    tasks[i].pc \in {"cleanup", "returned"} /\ tasks[i].result["ocr_result"].t # "none"

\* C14: extract_invoice_fields_with_llm returns a mapping or an error payload
\* {error, raw_output}; when the answer of the language model is not a
\* mapping, the payload's raw_output is the answer's text, the document is
\* recorded as an error with that text, and it is kept out of the batch.
C14_RawTextPreserved ==
    \A i \in DOMAIN tasks :
        Answered(i) =>
            /\ tasks[i].result["structured"].t = "dict"
            /\ NotAMapping(tasks[i].response) =>
                  /\ DOMAIN tasks[i].result["structured"].v = {"error", "raw_output"}
                  /\ tasks[i].result["structured"].v["raw_output"] = PyStr(tasks[i].response.text)
                  /\ tasks[i].result["error"].t = "str"
                  /\ tasks[i].result["raw_output"] = PyStr(tasks[i].response.text)
                  /\ DetectInvoked => ~InCorrelationBatch(i)

\* The file at path p is overwritten or deleted by the step.
Touched(p) == p \notin DOMAIN files' \/ files'[p] # files[p]

\* The task of upload a takes the step.
Acts(a) == tasks'[a] # tasks[a]

\* C15: extraction tasks that run at the same time share no file: no task
\* overwrites or deletes a file (saved upload or page image) that another
\* task, still running, has written.
C15_NoSharedFiles ==
    [][\A p \in DOMAIN files :
          Touched(p) /\ Running(files[p]) =>
              \A a \in DOMAIN tasks : Acts(a) => a = files[p]]_vars

\* The image that the task of upload i wrote to path p is still on disk.
LeftOnDisk(i, p) == p \in DOMAIN files /\ files[p] = i

\* C19: when process_invoice has returned for a document, every image file
\* written for that document has been deleted, also when the extraction of
\* the images failed part-way through.
C19_ImagesDeleted ==
    \A i \in DOMAIN tasks :
        tasks[i].pc = "returned" => \A p \in tasks[i].written : ~LeftOnDisk(i, p)

(***************************************************************************)
(* Two runs over the same documents with the same extracted fields: the    *)
(* results are collected in completion order (app.py 110-114) and the      *)
(* batch is built in that order (128-157), so the second run passes a      *)
(* permutation of the first run's batch to detect_red_flags (164).         *)
(***************************************************************************)
MaxOrderBatch == 3

OrderFields ==
    {Fields(PyStr(v), NoContacts, NoContacts, h, PyNone, PyStr("scanned"), PyStr("typed")) :
        v \in {"acme", "acme bolt", "bolt", "zen"}, h \in {HeadersQQQIP, HeadersQQQI, HeadersQQQP}}
    \cup {Fields(PyStr(v), PyList(<<Phone>>), NoContacts, HeadersQQQI, PyNone, PyStr("scanned"), PyStr("typed")) :
            v \in {"acme", "bolt"}}

\* The orders in which n tasks can complete.
CompletionOrders(n) == {f \in [1..n -> 1..n] : \A i, j \in 1..n : f[i] = f[j] => i = j}

InitOrders ==
    /\ pc = "start"
    /\ \E fs \in SeqsUpTo(OrderFields, MaxOrderBatch) : invoices = Batch(fs)
    /\ batch = invoices
    /\ vendor_names = <<>> /\ groups = <<>> /\ vendor_to_canonical = <<>>
    /\ contact_map = <<>> /\ vendor_map = <<>>
    /\ similar_format_groups = <<>> /\ doc_to_format_group = <<>>
    /\ NoApp
    /\ flagged = <<>> /\ idx = 0 /\ layout_args = <<>> /\ layout_ret = <<>>

\* The same documents are analysed again, their tasks completing in another
\* order; the records returned by the first run are kept for comparison.
Recollect ==
    /\ pc = "done"
    /\ reference = <<>>
    /\ \E order \in CompletionOrders(Len(batch)) :
         /\ \E k \in 1..Len(batch) : order[k] # k
         /\ invoices' = [k \in 1..Len(batch) |-> batch[order[k]]]
         /\ batch' = invoices'
    /\ reference' = flagged
    /\ pc' = "start"
    /\ vendor_names' = <<>> /\ groups' = <<>> /\ vendor_to_canonical' = <<>>
    /\ contact_map' = <<>> /\ vendor_map' = <<>>
    /\ similar_format_groups' = <<>> /\ doc_to_format_group' = <<>>
    /\ flagged' = <<>> /\ idx' = 0
    /\ UNCHANGED <<layout_args, layout_ret, uploaded_files, tasks, files, results, all_invoice_data>>

NextOrders ==
    \/ Recollect
    \/ Next

SpecOrders == InitOrders /\ [][NextOrders]_vars

\* Both runs have returned.
BothDone == pc = "done" /\ reference # <<>>

\* The record of the first run for the document at position i of the second.
Earlier(i) == reference[CHOOSE j \in DOMAIN reference : reference[j]["file_name"] = flagged[i]["file_name"]]

\* Every document has the flag_type and the canonical_vendor it had in the
\* first run.
SameFlagsAsEarlier ==
    \A i \in DOMAIN flagged :
        /\ flagged[i]["flag_type"] = Earlier(i)["flag_type"]
        /\ flagged[i]["canonical_vendor"] = Earlier(i)["canonical_vendor"]

\* C21: for the same documents with the same extracted fields, the
\* flag_type and the canonical_vendor of every document are the same for
\* every order in which the extraction tasks complete.
C21_SameForEveryOrder == BothDone => SameFlagsAsEarlier

\* Two vendor names that group_similar_vendors puts together when it meets
\* them one after the other (red_flags.py 16).
NameSimilar(a, b) == token_set_ratio(a, b) >= VendorThreshold

\* Name similarity is transitive on the vendor names of the batch: the names
\* fall into clusters that are closed under similarity.
VendorNamesClosed ==
    \A i, j, k \in DOMAIN batch :
        NameSimilar(vendor_of(batch[i]), vendor_of(batch[j]))
          /\ NameSimilar(vendor_of(batch[j]), vendor_of(batch[k]))
        => NameSimilar(vendor_of(batch[i]), vendor_of(batch[k]))

\* The grouping condition of find_similar_format_groups is transitive on the
\* documents of the batch.
GroupingClosed ==
    \A i, j, k \in DOMAIN batch :
        i # k /\ GroupingCondition(i, j) /\ GroupingCondition(j, k) => GroupingCondition(i, k)

\* C21, amended: the flag_type and the canonical_vendor of every document
\* are the same for every completion order when the similarity of vendor
\* names and the grouping condition of the format groups are both transitive
\* on the batch; the greedy first-match passes depend on the order otherwise.
C21_SameForEveryOrderWhenClosed ==
    BothDone /\ VendorNamesClosed /\ GroupingClosed => SameFlagsAsEarlier

\* Three documents analysed in two orders, the names and the grouping
\* condition being transitive: "acme" and "acme bolt" share a canonical
\* vendor, and two documents are flagged for their common format.
C21_Witness ==
    /\ BothDone /\ VendorNamesClosed /\ GroupingClosed
    /\ Len(batch) = 3
    /\ batch[1]["file_name"] # PyStr(FileNames[1])
    /\ \E i, j \in DOMAIN flagged :
         /\ flagged[i]["vendor_name"] # flagged[j]["vendor_name"]
         /\ flagged[i]["canonical_vendor"] = flagged[j]["canonical_vendor"]
    /\ \E i \in DOMAIN flagged : flagged[i]["flag_type"] = PyStr(SameFormatDifferentVendor)
    /\ SameFlagsAsEarlier

=============================================================================
